---- MODULE Spec2Model ----
(***************************************************************************)
(* Listing lifecycle of the housing-share backend: the create, list,       *)
(* update and delete handlers of housingShare.controller.js, the request   *)
(* validators of housingShare.routes.js and the mongoose schema of         *)
(* housingShare.model.js, over a record store (MongoDB collection) and an  *)
(* object store (Cloudinary).                                              *)
(*                                                                         *)
(* Spec      the mutating handlers under every answer of the two stores    *)
(* FieldSpec create and update over the capacity, price and status fields  *)
(* PageSpec  validatePagination on every pair of parameters                *)
(* ListSpec  getHousingShares on every collection                          *)
(* PrefSpec  create and update over the forms of the preferences field     *)
(* ConcSpec  two calls on one listing, interleaved at their awaits         *)
(***************************************************************************)
EXTENDS Integers, Sequences, FiniteSets, TLC

\* ------------------------------------------------------------------ bounds
\* Listings created over a run (fresh _id values 1..MaxListings).
MaxListings == 1
\* Files carried by one request.
MaxFiles == 2
\* Uploads the object store accepts over a run (fresh public_id values).
MaxObjects == 3
\* Readings the clock advances through over a run.
MaxTime == 1
\* Characters in the text of a page or limit query parameter.
MaxText == 3
\* Listings in the collection a list request reads.
MaxRecords == 3

Users == {"u1", "u2"}

\* ------------------------------------------------------- request values
\* A body field value is a JSON number or a string of decimal digits (the
\* form every field of a multipart/form-data request arrives in).
Num(n) == [str |-> FALSE, n |-> n, s |-> <<>>]
Str(s) == [str |-> TRUE, n |-> 0, s |-> s]

RECURSIVE DigitsToNat(_)
DigitsToNat(s) ==
  IF s = <<>> THEN 0
  ELSE DigitsToNat(SubSeq(s, 1, Len(s) - 1)) * 10 + s[Len(s)]

\* JavaScript ToNumber on a body field value.
ToNumber(v) == IF v.str THEN DigitsToNat(v.s) ELSE v.n

\* JavaScript string comparison a < b: code unit by code unit.
RECURSIVE StrLess(_, _)
StrLess(a, b) ==
  IF b = <<>> THEN FALSE
  ELSE IF a = <<>> THEN TRUE
  ELSE IF a[1] # b[1] THEN a[1] < b[1]
  ELSE StrLess(Tail(a), Tail(b))

\* JavaScript a <= b: two strings compare as strings, anything else as
\* numbers.
JsLessEq(a, b) ==
  IF a.str /\ b.str THEN ~StrLess(b.s, a.s)
  ELSE ToNumber(a) <= ToNumber(b)

\* validator.js isInt({ min }): an integer literal that is at least min.
isInt(v, min) == (v.str => Len(v.s) > 0) /\ ToNumber(v) >= min

Has(body, f) == f \in DOMAIN body

GENDERS == {"male", "female", "any"}

\* The preferences field of a body is a structured record, or (a multipart
\* text field) the JSON text that encodes one; a text may also fail to parse.
JsonText(v) == [encoded |-> v, wellFormed |-> TRUE]

MalformedText == [encoded |-> <<>>, wellFormed |-> FALSE]

IsString(v) == "encoded" \in DOMAIN v

\* The value body('preferences.<f>') selects: a property of a string, like a
\* missing property, is undefined.
PrefField(body, f) ==
  IF Has(body, "preferences") /\ ~IsString(body.preferences)
       /\ f \in DOMAIN body.preferences
    THEN body.preferences[f] ELSE "undefined"

GenderField(body) == PrefField(body, "gender")

\* typeof req.body.preferences === 'string' and JSON.parse throws.
ParseThrows(body) ==
  Has(body, "preferences") /\ IsString(body.preferences)
    /\ ~body.preferences.wellFormed

\* if (typeof req.body.preferences === 'string')
\*   req.body.preferences = JSON.parse(req.body.preferences)
Decode(body) ==
  IF Has(body, "preferences") /\ IsString(body.preferences)
    THEN ("preferences" :> body.preferences.encoded) @@ body
    ELSE body

\* The controller's check !['male','female','any'].includes(
\* req.body.preferences?.gender).
GenderOk(body) == Has(body, "preferences") /\ body.preferences.gender \in GENDERS

\* The custom validator of body('totalCapacity'): throws when
\* value <= req.body.currentOccupants (a comparison with undefined is false).
CapacityCustomFails(body) ==
  Has(body, "currentOccupants") /\ JsLessEq(body.totalCapacity, body.currentOccupants)

\* validator.js isFloat({ min }): a number literal that is at least min
\* (whole numbers stand for every number).
isFloat(v, min) == (v.str => Len(v.s) > 0) /\ ToNumber(v) >= min

\* The governorates body('governorate').isIn([...]) lists: the route's array
\* holds four names and a comment (accents dropped here).
RouteGovernorates == {"Ariana", "Beja", "Ben Arous", "Bizerte"}

\* TUNISIAN_GOVERNORATES, the enum of the schema's governorate path.
TUNISIAN_GOVERNORATES ==
  {"Ariana", "Beja", "Ben Arous", "Bizerte", "Gabes", "Gafsa", "Jendouba",
   "Kairouan", "Kasserine", "Kebili", "Kef", "Mahdia", "Manouba", "Medenine",
   "Monastir", "Nabeul", "Sfax", "Sidi Bouzid", "Siliana", "Sousse", "Tataouine",
   "Tozeur", "Tunis", "Zaghouan"}

\* The enum of the schema's status path.
STATUSES == {"available", "full", "closed"}

ValidatedFields ==
  {"governorate", "currentOccupants", "totalCapacity", "pricePerPerson",
   "preferences.gender", "preferences.yearOfStudy"}

\* validateCreateShare: the set of fields whose chain reports an error.  Every
\* chain is optional (router.put calls .optional() on the same chain objects),
\* so a chain whose field is undefined is skipped.
validateCreateShare(body) ==
  { f \in ValidatedFields :
      \/ f = "governorate" /\ Has(body, f) /\ body[f] \notin RouteGovernorates
      \/ f = "currentOccupants" /\ Has(body, f) /\ ~isInt(body[f], 1)
      \/ f = "totalCapacity" /\ Has(body, f)
           /\ (~isInt(body[f], 2) \/ CapacityCustomFails(body))
      \/ f = "pricePerPerson" /\ Has(body, f) /\ ~isFloat(body[f], 0)
      \/ f = "preferences.gender" /\ GenderField(body) # "undefined"
           /\ GenderField(body) \notin GENDERS
      \* .optional().trim().notEmpty(); the studyField chain is the same
      \/ f = "preferences.yearOfStudy" /\ PrefField(body, "yearOfStudy") = "" }

\* housingShareSchema: the paths mongoose's save() rejects (pricePerPerson
\* has no validator but required).
SchemaErrors(doc) ==
  { f \in ValidatedFields \cup {"status"} :
      \/ f = "governorate" /\ doc.governorate \notin TUNISIAN_GOVERNORATES
      \/ f = "currentOccupants" /\ doc.currentOccupants < 1
      \/ f = "totalCapacity" /\ doc.totalCapacity < 2
      \/ f = "preferences.gender" /\ doc.gender \notin GENDERS
      \/ f = "status" /\ doc.status \notin STATUSES }

\* ------------------------------------------------------------------ state
VARIABLES
  records,   \* the HousingShare collection: _id -> document
  objects,   \* public_ids live in the object store
  creator,   \* _id -> the identity whose create persisted it
  nextId,    \* the next fresh _id
  nextObj,   \* the next fresh public_id
  last,      \* the last request handled and its response
  now,       \* the reading of the clock, Date.now()
  pending    \* the calls in flight, each at one of its awaits

vars == <<records, objects, creator, nextId, nextObj, last, now, pending>>

NoFault == [upload |-> 0, destroy |-> {}, db |-> FALSE]

\* The shape of the state under Spec and FieldSpec: documents of
\* housingShareSchema keyed by _id, photos being the public_ids of their
\* entries.
TypeOK ==
  /\ DOMAIN records \subseteq 1..MaxListings
  /\ \A id \in DOMAIN records :
       /\ records[id].student \in Users
       /\ records[id].currentOccupants \in Nat
       /\ records[id].totalCapacity \in Nat
       /\ records[id].gender \in GENDERS
       /\ records[id].yearOfStudy \in STRING
       /\ records[id].governorate \in TUNISIAN_GOVERNORATES
       /\ records[id].pricePerPerson \in Int
       /\ records[id].status \in STATUSES
       /\ records[id].createdAt \in 0..now
       /\ records[id].updatedAt \in 0..now
       /\ \A i \in 1..Len(records[id].photos) : records[id].photos[i] \in 1..MaxObjects
  /\ objects \subseteq 1..MaxObjects
  /\ DOMAIN records \subseteq DOMAIN creator
  /\ nextId \in 1..(MaxListings + 1)
  /\ nextObj \in 1..(MaxObjects + 1)
  /\ last.op \in {"none", "create", "update", "delete"}
  /\ now \in Nat

Init ==
  /\ records = <<>>
  /\ objects = {}
  /\ creator = <<>>
  /\ nextId = 1
  /\ nextObj = 1
  /\ last = [op |-> "none", caller |-> "u1", id |-> 0, body |-> <<>>, nfiles |-> 0,
             fault |-> NoFault, err |-> "none", calls |-> <<>>, warnings |-> <<>>]
  /\ now = 0
  /\ pending = <<>>

Rep(x, n) == [i \in 1..n |-> x]

\* ------------------------------------------------------- media helpers
\* handlePhotoUpload over n files when upload number failAt rejects (0: none
\* does): the photos pushed before the loop ends or throws.  Nothing is
\* destroyed when an upload throws.
handlePhotoUpload(n, failAt, first) ==
  LET done == IF failAt = 0 \/ failAt > n THEN n ELSE failAt - 1
  IN [photos |-> [i \in 1..done |-> first + i - 1],
      threw  |-> failAt # 0 /\ failAt <= n,
      calls  |-> Rep("upload", IF failAt = 0 \/ failAt > n THEN n ELSE failAt)]

\* deletePhotos when the destroy calls at the positions in failing reject:
\* the loop awaits each destroy in turn, so the first rejection ends it.
deletePhotos(photos, failing) ==
  LET bad == { i \in 1..Len(photos) : i \in failing }
      stop == IF bad = {} THEN 0 ELSE CHOOSE i \in bad : \A j \in bad : i <= j
      done == IF stop = 0 THEN Len(photos) ELSE stop - 1
  IN [destroyed |-> { photos[i] : i \in 1..done },
      threw     |-> stop # 0,
      calls     |-> Rep("destroy", IF stop = 0 THEN Len(photos) ELSE stop)]

\* ------------------------------------------------------- record store
\* findOne without its student condition: HousingShare.findOne({ _id: id }).
findOneById(id, caller) ==
  { i \in DOMAIN records : i = id }

\* HousingShare.findOne({ _id: id, student: caller }): the matching _ids.
findOne(id, caller) ==
  { i \in DOMAIN records : i = id /\ records[i].student = caller }

\* mongoose.Types.ObjectId.isValid(id); 0 stands for a malformed id.
ObjectIdIsValid(id) == id >= 1

Without(f, id) == [i \in DOMAIN f \ {id} |-> f[i]]

\* What a handler leaves behind when it changes nothing.
Unchanged ==
  [records |-> records, objects |-> objects, creator |-> creator,
   nextId |-> nextId, nextObj |-> nextObj, warnings |-> <<>>]

Result(err, calls, changes) == [err |-> err, calls |-> calls] @@ changes @@ Unchanged

\* ------------------------------------------------------------- handlers
\* new HousingShare({ ...req.body, student: req.user.userId, photos }): the
\* spread comes first, so a student or photos key of the body is overridden;
\* a path the body leaves out takes the schema's default.
NewDocument(caller, body, photos) ==
  [student          |-> caller,
   governorate      |-> body.governorate,
   currentOccupants |-> ToNumber(body.currentOccupants),
   totalCapacity    |-> ToNumber(body.totalCapacity),
   pricePerPerson   |-> ToNumber(body.pricePerPerson),
   gender           |-> body.preferences.gender,
   yearOfStudy      |-> PrefField(body, "yearOfStudy"),
   photos           |-> photos,
   status           |-> IF Has(body, "status") THEN body.status ELSE "available",
   createdAt        |-> now,
   updatedAt        |-> now]

createHousingShare(caller, body, nfiles, fault) ==
  LET up  == handlePhotoUpload(nfiles, fault.upload, nextObj)
      doc == NewDocument(caller, Decode(body), up.photos)
      uploaded == [objects |-> objects \cup { up.photos[i] : i \in 1..Len(up.photos) },
                   nextObj |-> nextObj + Len(up.photos)]
  IN IF validateCreateShare(body) # {} THEN
       Result("Validation error", <<>>, <<>>)
     ELSE IF ParseThrows(body) THEN
       Result("SyntaxError", <<>>, <<>>)
     ELSE IF ~GenderOk(Decode(body)) THEN
       Result("Invalid gender preference", <<>>, <<>>)
     ELSE IF up.threw THEN
       Result("UploadError", up.calls, uploaded)
     ELSE IF SchemaErrors(doc) # {} THEN
       Result("ValidationError", up.calls \o <<"save">>, uploaded)
     ELSE IF fault.db THEN
       Result("StorageError", up.calls \o <<"save">>, uploaded)
     ELSE
       Result("none", up.calls \o <<"save">>,
              [records |-> (nextId :> doc) @@ records,
               creator |-> (nextId :> caller) @@ creator,
               nextId  |-> nextId + 1] @@ uploaded)

\* Object.assign followed by a status derived from the occupancy: the listing
\* turns full once currentOccupants reaches totalCapacity.
ObjectAssignAutoFull(share, body) ==
  LET co == IF Has(body, "currentOccupants")
              THEN ToNumber(body.currentOccupants) ELSE share.currentOccupants
      tc == IF Has(body, "totalCapacity")
              THEN ToNumber(body.totalCapacity) ELSE share.totalCapacity
  IN [student          |-> IF Has(body, "student") THEN body.student ELSE share.student,
      currentOccupants |-> co,
      totalCapacity    |-> tc,
      gender           |-> IF Has(body, "preferences")
                             THEN body.preferences.gender ELSE share.gender,
      yearOfStudy      |-> IF Has(body, "preferences")
                             THEN PrefField(body, "yearOfStudy")
                             ELSE share.yearOfStudy,
      photos           |-> IF Has(body, "photos") THEN body.photos ELSE share.photos,
      governorate      |-> IF Has(body, "governorate")
                             THEN body.governorate ELSE share.governorate,
      pricePerPerson   |-> IF Has(body, "pricePerPerson")
                             THEN ToNumber(body.pricePerPerson)
                             ELSE share.pricePerPerson,
      status           |-> IF co >= tc THEN "full"
                           ELSE IF Has(body, "status") THEN body.status
                           ELSE share.status,
      createdAt        |-> share.createdAt,
      updatedAt        |-> share.updatedAt]

\* Object.assign(share, req.body): every key of the body overwrites the
\* document's path of that name (mongoose casts the value to the path's type).
ObjectAssign(share, body) ==
  [student          |-> IF Has(body, "student") THEN body.student ELSE share.student,
   currentOccupants |-> IF Has(body, "currentOccupants")
                          THEN ToNumber(body.currentOccupants)
                          ELSE share.currentOccupants,
   totalCapacity    |-> IF Has(body, "totalCapacity")
                          THEN ToNumber(body.totalCapacity)
                          ELSE share.totalCapacity,
   gender           |-> IF Has(body, "preferences")
                          THEN body.preferences.gender ELSE share.gender,
   \* the nested preferences object is replaced as a whole
   yearOfStudy      |-> IF Has(body, "preferences")
                          THEN PrefField(body, "yearOfStudy")
                          ELSE share.yearOfStudy,
   photos           |-> IF Has(body, "photos") THEN body.photos ELSE share.photos,
   governorate      |-> IF Has(body, "governorate")
                          THEN body.governorate ELSE share.governorate,
   pricePerPerson   |-> IF Has(body, "pricePerPerson")
                          THEN ToNumber(body.pricePerPerson)
                          ELSE share.pricePerPerson,
   status           |-> IF Has(body, "status") THEN body.status ELSE share.status,
   createdAt        |-> share.createdAt,
   updatedAt        |-> share.updatedAt]

\* An update that leaves updatedAt as it was.
KeepUpdatedAt(share) == share

\* share.updatedAt = Date.now()
SetUpdatedAt(share) == [share EXCEPT !.updatedAt = now]

updateHousingShare(caller, id, body, nfiles, fault) ==
  LET share == records[id]
      del == deletePhotos(share.photos, fault.destroy)
      up  == handlePhotoUpload(nfiles, fault.upload, nextObj)
      \* the photo block runs only when the request carries files
      afterDel == IF nfiles > 0 THEN [objects |-> objects \ del.destroyed] ELSE <<>>
      afterUp  == IF nfiles > 0
                    THEN [objects |-> (objects \ del.destroyed)
                                        \cup { up.photos[i] : i \in 1..Len(up.photos) },
                          nextObj |-> nextObj + Len(up.photos)]
                    ELSE <<>>
      photoCalls == IF nfiles > 0 THEN del.calls \o up.calls ELSE <<>>
      body2 == Decode(IF nfiles > 0 THEN ("photos" :> up.photos) @@ body ELSE body)
      merged == SetUpdatedAt(ObjectAssign(share, body2))
  IN IF ~ObjectIdIsValid(id) THEN
       Result("Invalid housing share ID", <<>>, <<>>)
     ELSE IF findOne(id, caller) = {} THEN
       Result("Housing share not found or unauthorized", <<"findOne">>, <<>>)
     ELSE IF nfiles > 0 /\ del.threw THEN
       Result("Error processing photos", <<"findOne">> \o del.calls, afterDel)
     ELSE IF nfiles > 0 /\ up.threw THEN
       Result("Error processing photos", <<"findOne">> \o photoCalls, afterUp)
     ELSE IF ParseThrows(body) THEN
       Result("SyntaxError", <<"findOne">> \o photoCalls, afterUp)
     ELSE IF Has(body2, "preferences") /\ ~GenderOk(body2) THEN
       Result("Invalid gender preference", <<"findOne">> \o photoCalls, afterUp)
     ELSE IF SchemaErrors(merged) # {} THEN
       Result("ValidationError", <<"findOne">> \o photoCalls \o <<"save">>, afterUp)
     ELSE IF fault.db THEN
       Result("StorageError", <<"findOne">> \o photoCalls \o <<"save">>, afterUp)
     ELSE
       Result("none", <<"findOne">> \o photoCalls \o <<"save">>,
              [records |-> [records EXCEPT ![id] = merged]] @@ afterUp)

deleteHousingShare(caller, id, fault) ==
  LET share == records[id]
      del == deletePhotos(share.photos, fault.destroy)
      afterDel == [objects |-> objects \ del.destroyed]
  IN IF ~ObjectIdIsValid(id) THEN
       Result("Invalid housing share ID", <<>>, <<>>)
     ELSE IF findOne(id, caller) = {} THEN
       Result("Housing share not found or unauthorized", <<"findOne">>, <<>>)
     ELSE IF fault.db THEN
       \* the rejection of del is caught and logged; deleteOne() then rejects
       Result("StorageError", <<"findOne">> \o del.calls \o <<"deleteOne">>, afterDel)
     ELSE
       \* res.json({ status, message }): the response carries no warning
       Result("none", <<"findOne">> \o del.calls \o <<"deleteOne">>,
              [records |-> Without(records, id)] @@ afterDel)

\* ------------------------------------------------------------- requests
Opt(f, S) == { <<>> } \cup { f :> v : v \in S }

\* Capacity values a client sends: JSON numbers and multipart digit strings.
CapValues == { Num(0), Num(9), Num(10), Str(<<9>>), Str(<<1, 0>>) }

Preferences == { [gender |-> g] : g \in {"any", "other"} }

\* Bodies of a create request: every pair of capacity values, and a valid
\* pair with a gender outside the enumeration or with a student key.
ValidBody ==
  ("governorate" :> "Ariana")
    @@ ("currentOccupants" :> Num(9)) @@ ("totalCapacity" :> Num(10))
    @@ ("pricePerPerson" :> Num(300))
    @@ ("preferences" :> [gender |-> "any"])

\* The body of the spec's concrete scenario: a governorate of the schema's
\* enum that the route's array leaves out.
ScenarioBody ==
  ("governorate" :> "Tunis")
    @@ ("currentOccupants" :> Num(2)) @@ ("totalCapacity" :> Num(4))
    @@ ("pricePerPerson" :> Num(300))
    @@ ("preferences" :> [gender |-> "any"])

CreateBodies ==
  { ("currentOccupants" :> co) @@ ("totalCapacity" :> tc) @@ ValidBody :
      co \in CapValues, tc \in CapValues }
    \cup { ("preferences" :> [gender |-> "other"]) @@ ValidBody }
    \cup { ("student" :> u) @@ ValidBody : u \in Users }

\* Bodies of an update request: any one field, or none.
UpdateBodies ==
  Opt("currentOccupants", { Num(0), Num(10) })
    \cup Opt("totalCapacity", { Num(9) })
    \cup Opt("preferences", Preferences)
    \cup Opt("student", Users)
    \cup Opt("photos", { <<>> })

\* What the two stores may answer a request with: the upload that rejects
\* (0: none), the positions of the stored photos whose destroy rejects, and
\* whether the record store rejects the write.  A handler stops at the first
\* rejection it does not catch, so one rejection per request covers every
\* outcome of create and update; delete catches the destroy rejection, so its
\* destroy and write rejections combine.
Fault(upload, destroy, db) == [upload |-> upload, destroy |-> destroy, db |-> db]

UploadFaults(nfiles) == { Fault(k, {}, FALSE) : k \in 1..nfiles }

DestroyFaults(nphotos) == { Fault(0, F, FALSE) : F \in SUBSET (1..nphotos) \ {{}} }

DbFault == Fault(0, {}, TRUE)

PhotosOf(id) == IF id \in DOMAIN records THEN Len(records[id].photos) ELSE 0

Request(body, nfiles, fault) == [body |-> body, nfiles |-> nfiles, fault |-> fault]

\* Requests to create: every body with a file while both stores answer, the
\* scenario's body with its two files, and a valid body with every file count
\* under every rejection.
CreateRequests ==
  { Request(b, 1, NoFault) : b \in CreateBodies }
    \cup { Request(ScenarioBody, 2, NoFault) }
    \cup { Request(ValidBody, n, f) :
             n \in 0..MaxFiles, f \in {NoFault, DbFault} \cup UploadFaults(MaxFiles) }

\* Requests to update listing id: every body without files while both stores
\* answer, and a few bodies with every file count under every rejection.
MediaBodies ==
  { <<>>, "preferences" :> [gender |-> "other"], "currentOccupants" :> Num(0) }

UpdateRequests(id) ==
  { Request(b, 0, NoFault) : b \in UpdateBodies }
    \cup { Request(b, n, f) :
             b \in MediaBodies, n \in 0..MaxFiles,
             f \in {NoFault, DbFault} \cup UploadFaults(MaxFiles)
                     \cup DestroyFaults(PhotosOf(id)) }

DeleteFaults(id) ==
  { Fault(0, F, db) : F \in SUBSET (1..PhotosOf(id)), db \in BOOLEAN }

Respond(op, caller, id, req, r) ==
  /\ records' = r.records
  /\ objects' = r.objects
  /\ creator' = r.creator
  /\ nextId' = r.nextId
  /\ nextObj' = r.nextObj
  /\ last' = [op |-> op, caller |-> caller, id |-> id, body |-> req.body,
              nfiles |-> req.nfiles, fault |-> req.fault, err |-> r.err,
              calls |-> r.calls, warnings |-> r.warnings]
  /\ now' = now
  /\ UNCHANGED pending

\* ------------------------------------------------------------- actions
Create ==
  /\ nextId <= MaxListings
  /\ \E caller \in Users, req \in CreateRequests :
       /\ req.fault.upload <= req.nfiles
       /\ nextObj + req.nfiles - 1 <= MaxObjects
       /\ Respond("create", caller, nextId, req,
                  createHousingShare(caller, req.body, req.nfiles, req.fault))

Update ==
  \E caller \in Users, id \in 0..MaxListings :
    \E req \in UpdateRequests(id) :
       /\ req.fault.upload <= req.nfiles
       /\ req.nfiles = 0 => req.fault.destroy = {}
       /\ nextObj + req.nfiles - 1 <= MaxObjects
       /\ Respond("update", caller, id, req,
                  updateHousingShare(caller, id, req.body, req.nfiles, req.fault))

Delete ==
  \E caller \in Users, id \in 0..MaxListings :
    \E fault \in DeleteFaults(id) :
       Respond("delete", caller, id, Request(<<>>, 0, fault),
               deleteHousingShare(caller, id, fault))

Next == Create \/ Update \/ Delete

\* Runs of the three mutating handlers under every answer of the two stores,
\* within one reading of the clock.
Spec == Init /\ [][Next]_vars

\* ------------------------------------------------- field-level requests
\* Bodies of a create request that vary the price and the status.
FieldCreateBodies ==
  { p @@ s @@ ValidBody :
      p \in { "pricePerPerson" :> v : v \in { Num(300), Num(0 - 1) } },
      s \in Opt("status", { "full", "closed" }) }

\* Bodies of an update request: every subset of the capacity, price and
\* status fields.
FieldUpdateBodies ==
  { co @@ tc @@ p @@ s :
      co \in Opt("currentOccupants", { Num(10) }),
      tc \in Opt("totalCapacity", { Num(9), Num(11) }),
      p  \in Opt("pricePerPerson", { Num(0 - 1) }),
      s  \in Opt("status", STATUSES) }

\* The runs follow one listing: the create of the first _id.
CreateFields ==
  /\ nextId = 1
  /\ \E caller \in Users, b \in FieldCreateBodies :
       LET req == Request(b, 0, NoFault)
       IN Respond("create", caller, nextId, req,
                  createHousingShare(caller, req.body, req.nfiles, req.fault))

UpdateFields ==
  \E caller \in Users, b \in FieldUpdateBodies :
    LET req == Request(b, 0, NoFault)
    IN /\ Respond("update", caller, 1, req,
                  updateHousingShare(caller, 1, req.body, req.nfiles, req.fault))

\* Date.now() reads later.
Tick ==
  /\ now < MaxTime
  /\ now' = now + 1
  /\ UNCHANGED <<records, objects, creator, nextId, nextObj, last, pending>>

FieldNext == CreateFields \/ UpdateFields \/ Tick

\* Runs of create and update on one listing without files, both stores
\* answering, over bodies that vary the capacity, price and status fields, as
\* time passes.
FieldSpec == Init /\ [][FieldNext]_vars

\* ------------------------------------------------ preferences requests
\* The preferences a client sends: structured, or as JSON text.
PrefRecords ==
  { [gender |-> g] : g \in {"any", "female", "other"} }
    \cup { [gender |-> "any", yearOfStudy |-> y] : y \in {"", "3"} }

PrefValues ==
  PrefRecords \cup { JsonText(v) : v \in PrefRecords } \cup { MalformedText }

CreatePrefs ==
  /\ nextId = 1
  /\ \E caller \in Users, p \in PrefValues :
       LET req == Request(("preferences" :> p) @@ ValidBody, 0, NoFault)
       IN Respond("create", caller, nextId, req,
                  createHousingShare(caller, req.body, req.nfiles, req.fault))

UpdatePrefs ==
  \E caller \in Users, b \in Opt("preferences", PrefValues) :
    LET req == Request(b, 0, NoFault)
    IN /\ Respond("update", caller, 1, req,
                  updateHousingShare(caller, 1, req.body, req.nfiles, req.fault))

PrefNext == CreatePrefs \/ UpdatePrefs \/ Tick

\* Runs of create and update on one listing without files, both stores
\* answering, over every form of the preferences field, as time passes.
PrefSpec == Init /\ [][PrefNext]_vars

\* ----------------------------------------------------------- pagination
\* A query parameter as Express hands it over: undefined, or its text, a
\* sequence of characters.
Undefined == [given |-> FALSE, text |-> <<>>]
Raw(text) == [given |-> TRUE, text |-> text]

Digits == <<"0", "1", "2", "3", "4", "5", "6", "7", "8", "9">>

IsDigit(c) == \E i \in 1..10 : Digits[i] = c

DigitOf(c) == (CHOOSE i \in 1..10 : Digits[i] = c) - 1

\* The longest prefix of text made of digits.
RECURSIVE LeadingDigits(_)
LeadingDigits(text) ==
  IF text = <<>> \/ ~IsDigit(text[1]) THEN <<>>
  ELSE <<text[1]>> \o LeadingDigits(Tail(text))

NaN == [nan |-> TRUE, n |-> 0]

\* JavaScript parseInt(v): an optional sign, then the leading decimal digits;
\* NaN when there is none (undefined reads as the text "undefined").
parseInt(v) ==
  LET signed == v.text # <<>> /\ v.text[1] \in {"-", "+"}
      ds == LeadingDigits(IF signed THEN Tail(v.text) ELSE v.text)
      abs == DigitsToNat([i \in 1..Len(ds) |-> DigitOf(ds[i])])
  IN IF ~v.given \/ ds = <<>> THEN NaN
     ELSE [nan |-> FALSE, n |-> IF v.text[1] = "-" THEN 0 - abs ELSE abs]

\* JavaScript x || d on a number: NaN and 0 are falsy.
OrDefault(x, d) == IF x.nan \/ x.n = 0 THEN d ELSE x.n

\* validatePagination without the upper limit: only limit < 1 is reset.
validatePaginationNoUpper(page, limit) ==
  LET p == OrDefault(parseInt(page), 1)
      l == OrDefault(parseInt(limit), 10)
  IN [page |-> IF p < 1 THEN 1 ELSE p, limit |-> IF l < 1 THEN 10 ELSE l]

validatePagination(page, limit) ==
  LET p == OrDefault(parseInt(page), 1)
      l == OrDefault(parseInt(limit), 10)
  IN [page  |-> IF p < 1 THEN 1 ELSE p,
      limit |-> IF l < 1 \/ l > 100 THEN 10 ELSE l]

\* Texts of a page or limit parameter.
Chars == {"0", "1", "-", "a"}

Texts == UNION { [1..n -> Chars] : n \in 0..MaxText }

Params == { Undefined } \cup { Raw(s) : s \in Texts }

\* A call of validatePagination is pending on any pair of parameters.
PageInit ==
  /\ records = <<>>
  /\ objects = {}
  /\ creator = <<>>
  /\ nextId = 1
  /\ nextObj = 1
  /\ now = 0
  /\ pending = <<>>
  /\ \E page \in Params, limit \in Params :
       last = [op |-> "none", page |-> page, limit |-> limit,
               result |-> [page |-> 0, limit |-> 0]]

Paginate ==
  /\ last.op = "none"
  /\ last' = [last EXCEPT !.op = "validatePagination",
                          !.result = validatePagination(last.page, last.limit)]
  /\ UNCHANGED <<records, objects, creator, nextId, nextObj, now, pending>>

PageNext == Paginate

\* validatePagination applied once to every pair of parameters.
PageSpec == PageInit /\ [][PageNext]_vars

\* ----------------------------------------------------------------- list
\* JavaScript truthiness of a query parameter: undefined and "" are falsy.
Truthy(v) == v.given /\ v.text # <<>>

\* JavaScript Number(v) on a query text: the whole text must be a decimal
\* number ("" reads as 0).
JsNumber(v) ==
  LET signed == v.text # <<>> /\ v.text[1] \in {"-", "+"}
      body == IF signed THEN Tail(v.text) ELSE v.text
  IN IF v.text = <<>> THEN [nan |-> FALSE, n |-> 0]
     ELSE IF LeadingDigits(body) = body THEN parseInt(v)
     ELSE NaN

\* The query object whose price bounds are exclusive ($gt, $lt).
QueryMatchesExclusive(doc, q) ==
  /\ q.governorate # "" => doc.governorate = q.governorate
  /\ q.status # "" => doc.status = q.status
  /\ q.gender # "" => doc.gender = q.gender
  /\ Truthy(q.minPrice) => doc.pricePerPerson > JsNumber(q.minPrice).n
  /\ Truthy(q.maxPrice) => doc.pricePerPerson < JsNumber(q.maxPrice).n

\* The query object getHousingShares builds: a truthy parameter adds its
\* condition ("" stands for an absent governorate, status or gender).
QueryMatches(doc, q) ==
  /\ q.governorate # "" => doc.governorate = q.governorate
  /\ q.status # "" => doc.status = q.status
  /\ q.gender # "" => doc.gender = q.gender
  /\ Truthy(q.minPrice) => doc.pricePerPerson >= JsNumber(q.minPrice).n
  /\ Truthy(q.maxPrice) => doc.pricePerPerson <= JsNumber(q.maxPrice).n

\* mongoose rejects the query when a price bound casts to NaN.
CastFails(q) ==
  \/ Truthy(q.minPrice) /\ JsNumber(q.minPrice).nan
  \/ Truthy(q.maxPrice) /\ JsNumber(q.maxPrice).nan

Matching(q) == { id \in DOMAIN records : QueryMatches(records[id], q) }

\* .sort({ createdAt: -1 }): the orders find() may return the matching
\* documents in (the order of equal dates is the store's choice).
SortedFinds(M) ==
  { s \in [1..Cardinality(M) -> M] :
      /\ \A i, j \in DOMAIN s : i # j => s[i] # s[j]
      /\ \A i, j \in DOMAIN s :
           i < j => records[s[i]].createdAt >= records[s[j]].createdAt }

\* .skip(page * limit): the pages counted from 0.
SkipPages(page, limit) == page * limit

\* .skip((page - 1) * limit)
Skip(page, limit) == (page - 1) * limit

\* .skip(n).limit(limit) on the sorted documents.
Slice(s, n, limit) ==
  SubSeq(s, n + 1, IF n + limit < Len(s) THEN n + limit ELSE Len(s))

\* Math.ceil(total / limit)
Ceil(total, limit) == (total + limit - 1) \div limit

\* getHousingShares when find() returns the matching documents in order ord.
\* The handler never reads validationResult, so the route's query validators
\* reject nothing.
getHousingShares(q, ord) ==
  LET pg == validatePagination(q.page, q.limit)
  IN IF CastFails(q) THEN
       [err |-> "CastError", shares |-> <<>>, total |-> 0, pages |-> 0,
        currentPage |-> 0]
     ELSE
       [err |-> "none",
        shares |-> Slice(ord, Skip(pg.page, pg.limit), pg.limit),
        total |-> Cardinality(Matching(q)),
        pages |-> Ceil(Cardinality(Matching(q)), pg.limit),
        currentPage |-> pg.page]

\* Query strings of a list request.
Queries ==
  [governorate : {"", "Ariana"},
   status      : {"", "closed"},
   gender      : {"", "any"},
   minPrice    : {Undefined, Raw(<<"1", "0", "0">>), Raw(<<"a">>)},
   maxPrice    : {Undefined, Raw(<<"5", "0">>), Raw(<<"1", "0", "0">>)},
   page        : {Undefined, Raw(<<"2">>)},
   limit       : {Undefined, Raw(<<"1">>), Raw(<<"2">>)}]

Doc(governorate, status, gender, price, t) ==
  [student |-> "u1", governorate |-> governorate, currentOccupants |-> 9,
   totalCapacity |-> 10, pricePerPerson |-> price, gender |-> gender,
   yearOfStudy |-> "undefined",
   photos |-> <<>>, status |-> status, createdAt |-> t, updatedAt |-> t]

\* Documents of the collection a list request reads.
ListDocs ==
  { Doc("Ariana", "available", "any", 50, 0),
    Doc("Ariana", "closed", "any", 100, 0),
    Doc("Tunis", "available", "male", 100, 1),
    Doc("Ariana", "closed", "any", 100, 1) }

\* A list request is pending on a collection of up to MaxRecords documents,
\* created in the order of their _ids.
ListInit ==
  /\ \E n \in 0..MaxRecords :
       \E f \in [1..n -> ListDocs] :
         /\ \A i, j \in 1..n : i < j => f[i].createdAt <= f[j].createdAt
         /\ records = f
         /\ creator = [i \in 1..n |-> f[i].student]
         /\ nextId = n + 1
  /\ objects = {}
  /\ nextObj = 1
  /\ now = 1
  /\ last = [op |-> "none"]
  /\ pending = <<>>

List ==
  /\ last.op = "none"
  /\ \E q \in Queries :
       \E ord \in SortedFinds(Matching(q)) :
         last' = [op |-> "list", query |-> q] @@ getHousingShares(q, ord)
  /\ UNCHANGED <<records, objects, creator, nextId, nextObj, now, pending>>

ListNext == List

\* One list request on every collection.
ListSpec == ListInit /\ [][ListNext]_vars

\* ---------------------------------------------------------- concurrency
\* Two calls of the owner on the same listing run in one event loop: each
\* await of a handler is a point where the other call may run.
Calls == 1..2

Listing == 1

Owner == "u1"

\* A call that has not reached its first await: a delete, or an update whose
\* body is empty and that carries files.
StartCall(op, files) ==
  [op |-> op, files |-> files, pc |-> "findOne", share |-> <<>>, i |-> 0,
   photos |-> <<>>, err |-> "pending"]

ConcCalls ==
  { StartCall("delete", 0) } \cup { StartCall("update", n) : n \in 1..MaxFiles }

\* A listing with photos is stored and both calls have been received.
ConcInit ==
  /\ \E n \in 1..MaxFiles :
       /\ records = <<[Doc("Ariana", "available", "any", 300, 0)
                         EXCEPT !.photos = [i \in 1..n |-> i]]>>
       /\ objects = 1..n
       /\ nextObj = n + 1
  /\ creator = <<Owner>>
  /\ nextId = 2
  /\ now = 0
  /\ last = [op |-> "none"]
  /\ pending \in [Calls -> ConcCalls]

\* What follows deletePhotos(share.photos): the uploads of an update (its
\* files are not empty), the deleteOne() of a delete.
AfterRelease(op) == IF op = "update" THEN "upload" ELSE "deleteOne"

\* await HousingShare.findOne({ _id, student }): the call keeps the document
\* it read, or answers 404.
FindOneStep ==
  \E c \in Calls :
    LET call == pending[c]
    IN /\ call.pc = "findOne"
       /\ pending' = [pending EXCEPT ![c] =
            IF findOne(Listing, Owner) = {}
              THEN [call EXCEPT !.pc = "done",
                                !.err = "Housing share not found or unauthorized"]
              ELSE [call EXCEPT !.share = records[Listing],
                                !.pc = IF records[Listing].photos = <<>>
                                         THEN AfterRelease(call.op)
                                         ELSE "destroy"]]
       /\ UNCHANGED <<records, objects, creator, nextId, nextObj, last, now>>

\* await cloudinary.uploader.destroy(photo.publicId) of deletePhotos, one
\* photo of the document read per step; destroying an object that is gone is
\* not an error.
DestroyStep ==
  \E c \in Calls :
    LET call == pending[c]
        k == call.i + 1
    IN /\ call.pc = "destroy"
       /\ objects' = objects \ {call.share.photos[k]}
       /\ pending' = [pending EXCEPT ![c] =
            [call EXCEPT !.i = k,
                         !.pc = IF k = Len(call.share.photos)
                                  THEN AfterRelease(call.op) ELSE "destroy"]]
       /\ UNCHANGED <<records, creator, nextId, nextObj, last, now>>

\* One upload of handlePhotoUpload completes and its photo is collected.
UploadStep ==
  \E c \in Calls :
    LET call == pending[c]
        photos == Append(call.photos, nextObj)
    IN /\ call.pc = "upload"
       /\ objects' = objects \cup {nextObj}
       /\ nextObj' = nextObj + 1
       /\ pending' = [pending EXCEPT ![c] =
            [call EXCEPT !.photos = photos,
                         !.pc = IF Len(photos) = call.files
                                  THEN "save" ELSE "upload"]]
       /\ UNCHANGED <<records, creator, nextId, last, now>>

\* Object.assign(share, req.body); share.updatedAt = Date.now(); await
\* share.save() on the document read at findOne.  The save rejects when the
\* document is gone; when another save has replaced the photos since the
\* read, it rejects (the version of the document moved) or overwrites.
SaveStep ==
  \E c \in Calls :
    LET call == pending[c]
        merged == SetUpdatedAt(ObjectAssign(call.share, "photos" :> call.photos))
        rejected == [call EXCEPT !.pc = "done", !.err = "VersionError"]
    IN /\ call.pc = "save"
       /\ \/ /\ Listing \notin DOMAIN records
             /\ pending' = [pending EXCEPT ![c] = rejected]
             /\ UNCHANGED records
          \/ /\ Listing \in DOMAIN records
             /\ records[Listing].photos # call.share.photos
             /\ pending' = [pending EXCEPT ![c] = rejected]
             /\ UNCHANGED records
          \/ /\ Listing \in DOMAIN records
             /\ records' = [records EXCEPT ![Listing] = merged]
             /\ pending' = [pending EXCEPT ![c] =
                  [call EXCEPT !.pc = "done", !.err = "none"]]
       /\ UNCHANGED <<objects, creator, nextId, nextObj, last, now>>

\* await share.deleteOne(): removes the document if it is still there.
DeleteOneStep ==
  \E c \in Calls :
    LET call == pending[c]
    IN /\ call.pc = "deleteOne"
       /\ records' = Without(records, Listing)
       /\ pending' = [pending EXCEPT ![c] =
            [call EXCEPT !.pc = "done", !.err = "none"]]
       /\ UNCHANGED <<objects, creator, nextId, nextObj, last, now>>

ConcNext == FindOneStep \/ DestroyStep \/ UploadStep \/ SaveStep \/ DeleteOneStep

\* Every interleaving of two calls on one listing.
ConcSpec == ConcInit /\ [][ConcNext]_vars

\* ------------------------------------------------------------- notions
PhotoSet(doc) == { doc.photos[i] : i \in 1..Len(doc.photos) }

Referenced == UNION { PhotoSet(records[id]) : id \in DOMAIN records }

\* The aggregate is complete: every media reference of a record is a live
\* object, and every live object is referenced by a record.
Complete ==
  /\ \A id \in DOMAIN records : PhotoSet(records[id]) \subseteq objects
  /\ objects \subseteq Referenced

Count(calls, c) == Cardinality({ i \in 1..Len(calls) : calls[i] = c })

LastCall(calls) == IF calls = <<>> THEN "none" ELSE calls[Len(calls)]

\* The request of a step is made by the owner of a stored listing.
ByOwner(l) == l.id \in DOMAIN records /\ records[l.id].student = l.caller

\* ---------------------------------------------------------------- claims
\* C1: a create whose totalCapacity is numerically <= its currentOccupants
\* fails with the validation error and calls neither store.
C1_CreateRejectsCapacityOrder ==
  (/\ last.op = "create"
   /\ ToNumber(last.body.totalCapacity) <= ToNumber(last.body.currentOccupants))
    => (last.err = "Validation error" /\ last.calls = <<>>)

\* C2: an update by the owner that supplies only currentOccupants, with a
\* value >= the stored totalCapacity, fails with a validation error and leaves
\* the stored record unchanged.
C2_UpdateChecksMergedCapacity ==
  [][(/\ last'.op = "update"
      /\ ByOwner(last')
      /\ DOMAIN last'.body = {"currentOccupants"}
      /\ ToNumber(last'.body.currentOccupants) >= records[last'.id].totalCapacity)
       => (/\ last'.err \in {"Validation error", "ValidationError"}
           /\ records' = records)]_vars

\* C3: when upload k of the N files of an attach rejects, no object uploaded
\* by that attach survives it, and the caller receives an error.
C3_AttachRollsBack ==
  [][(/\ last'.op \in {"create", "update"}
      /\ last'.fault.upload > 0
      /\ LastCall(last'.calls) = "upload"
      /\ Count(last'.calls, "upload") = last'.fault.upload)
       => (/\ last'.err \in {"UploadError", "Error processing photos"}
           /\ objects' \subseteq objects)]_vars

\* C4: a delete by the owner during which at least one destroy rejects (the
\* record store answering) removes the record and answers success with one
\* warning per rejected destroy.
C4_DeleteReportsWarnings ==
  [][(/\ last'.op = "delete"
      /\ ByOwner(last')
      /\ ~last'.fault.db
      /\ last'.fault.destroy # {})
       => (/\ last'.id \notin DOMAIN records'
           /\ last'.err = "none"
           /\ Len(last'.warnings) = Cardinality(last'.fault.destroy))]_vars

\* C5: when save() rejects in an update that carried files and whose uploads
\* all succeeded, no object of that upload stays live, every object the
\* record referenced is as live as before, and the record is unchanged.
C5_UpdateCommitFailureRollsBack ==
  [][(/\ last'.op = "update"
      /\ last'.nfiles > 0
      /\ last'.err \in {"StorageError", "ValidationError"})
       => (/\ objects' \subseteq objects
           /\ PhotoSet(records[last'.id]) \cap objects \subseteq objects'
           /\ records' = records)]_vars

\* C6: when the record store rejects the save() of a create, no object that
\* create uploaded stays live, and the storage error reaches the caller.
C6_CreateCommitFailureRollsBack ==
  [][(/\ last'.op = "create"
      /\ last'.fault.db
      /\ LastCall(last'.calls) = "save")
       => (/\ last'.err = "StorageError"
           /\ objects' = objects)]_vars

\* C7: a create or update that fails validation or the ownership check has
\* called neither upload nor destroy nor save, and has changed neither store.
C7_ValidationBeforeIO ==
  [][(/\ last'.op \in {"create", "update"}
      /\ last'.err \in {"Validation error", "Invalid gender preference",
                        "Housing share not found or unauthorized"})
       => (/\ \A i \in 1..Len(last'.calls) :
                last'.calls[i] \notin {"upload", "destroy", "save"}
           /\ records' = records
           /\ objects' = objects)]_vars

\* C8: a successful create, update or delete leaves the aggregate complete
\* (the initial state is complete, so every sequence of them does).
C8_SuccessKeepsComplete ==
  [][(Complete /\ last'.err = "none") => Complete']_vars

\* C9: an update or delete whose caller is not the owner of a stored listing
\* with the given id fails (not found or unauthorized when the id is well
\* formed) and changes neither store.
C9_NonOwnerRejected ==
  [][(/\ last'.op \in {"update", "delete"}
      /\ ~ByOwner(last'))
       => (/\ last'.err \in {"Housing share not found or unauthorized",
                             "Invalid housing share ID"}
           /\ (ObjectIdIsValid(last'.id)
                 => last'.err = "Housing share not found or unauthorized")
           /\ records' = records
           /\ objects' = objects)]_vars

\* C9 witness: an update with files by a caller who is not the owner of the
\* stored listing it names has been answered not found or unauthorized.
C9_Witness ==
  /\ last.op = "update"
  /\ last.id \in DOMAIN records
  /\ records[last.id].student # last.caller
  /\ last.nfiles > 0
  /\ last.err = "Housing share not found or unauthorized"

\* C10: the owner of every persisted listing is the identity that created it.
C10_OwnerImmutable ==
  \A id \in DOMAIN records : records[id].student = creator[id]

\* C11: every persisted listing has totalCapacity > currentOccupants, whatever
\* creates and updates (each supplying any subset of the fields) produced it.
C11_CapacityOrderPersisted ==
  \A id \in DOMAIN records :
    records[id].totalCapacity > records[id].currentOccupants

\* C12: every persisted listing has pricePerPerson >= 0, and a create or
\* update that supplies a negative pricePerPerson is rejected and leaves the
\* records as they were.
C12_PriceNonNegative ==
  [][/\ \A id \in DOMAIN records' : records'[id].pricePerPerson >= 0
     /\ (/\ last'.op \in {"create", "update"}
         /\ Has(last'.body, "pricePerPerson")
         /\ ToNumber(last'.body.pricePerPerson) < 0)
          => (last'.err # "none" /\ records' = records)]_vars

\* The transitions of the status state machine.
StatusTransitions ==
  { <<"available", "full">>, <<"available", "closed">>,
    <<"full", "available">>, <<"full", "closed">> }

\* C13: an update changes the status of a listing only along available->full,
\* available->closed, full->available and full->closed; the status of a
\* closed listing is never changed.
C13_ClosedIsTerminal ==
  [][last'.op = "update"
       => \A id \in DOMAIN records \cap DOMAIN records' :
            \/ records'[id].status = records[id].status
            \/ <<records[id].status, records'[id].status>> \in StatusTransitions]_vars

\* C14: an update that supplies no status leaves the stored status of every
\* listing as it was, whatever capacities it supplies or finds stored; a
\* successful create that supplies no status persists status available.
C14_StatusOnlyExplicit ==
  [][/\ (last'.op = "update" /\ ~Has(last'.body, "status"))
          => \A id \in DOMAIN records \cap DOMAIN records' :
               records'[id].status = records[id].status
     /\ (last'.op = "create" /\ ~Has(last'.body, "status") /\ last'.err = "none")
          => (/\ last'.id \in DOMAIN records'
              /\ records'[last'.id].status = "available")]_vars

\* C14 witness: the owner's update without a status has raised currentOccupants
\* to the stored totalCapacity and been saved, the listing staying available.
C14_Witness ==
  /\ last.op = "update"
  /\ last.err = "none"
  /\ ~Has(last.body, "status")
  /\ Has(last.body, "currentOccupants")
  /\ last.id \in DOMAIN records
  /\ records[last.id].currentOccupants = records[last.id].totalCapacity
  /\ records[last.id].status = "available"

\* C18: an update by the owner with an empty body and no files (a step of
\* the handler: the clock does not move in it) succeeds and leaves the object
\* store and every field of the record as they were, except updatedAt, which
\* becomes the reading of the clock.
C18_EmptyUpdateTouchesUpdatedAt ==
  [][(/\ now' = now
      /\ last'.op = "update"
      /\ ByOwner(last')
      /\ last'.body = <<>>
      /\ last'.nfiles = 0)
       => (/\ last'.err = "none"
           /\ objects' = objects
           /\ records' = [records EXCEPT ![last'.id].updatedAt = now'])]_vars

\* C18 witness: the owner's empty update has been saved after the clock moved
\* on from the listing's creation, and only updatedAt has advanced.
C18_Witness ==
  /\ last.op = "update"
  /\ last.body = <<>>
  /\ last.nfiles = 0
  /\ last.err = "none"
  /\ last.id \in DOMAIN records
  /\ records[last.id].updatedAt > records[last.id].createdAt

\* C19: a create with the scenario's body (governorate Tunis) and two files,
\* both stores answering, persists a record whose photos are the two uploads
\* in the order of the files and whose status is available.
C19_ScenarioCreateSucceeds ==
  [][(/\ last'.op = "create"
      /\ last'.body = ScenarioBody
      /\ last'.nfiles = 2
      /\ last'.fault = NoFault)
       => (/\ last'.err = "none"
           /\ last'.id \in DOMAIN records'
           /\ records'[last'.id].photos = <<nextObj, nextObj + 1>>
           /\ records'[last'.id].status = "available")]_vars

\* C20: in an update that carries files, no upload follows the save, no
\* destroy precedes a successful save, and every object the record refers to
\* afterwards that was live before is still live.
C20_AttachBeforeRelease ==
  [][(last'.op = "update" /\ last'.nfiles > 0)
       => (/\ \A i \in 1..Len(last'.calls) :
                last'.calls[i] = "upload"
                  => \A j \in 1..(i - 1) : last'.calls[j] # "save"
           /\ \A i \in 1..Len(last'.calls) :
                last'.calls[i] = "destroy"
                  => (/\ last'.err = "none"
                      /\ \E j \in 1..(i - 1) : last'.calls[j] = "save")
           /\ \A id \in DOMAIN records' :
                PhotoSet(records'[id]) \cap objects \subseteq objects')]_vars

\* The text is an integer literal: decimal digits after an optional minus.
IsIntegerText(text) ==
  LET ds == IF text # <<>> /\ text[1] = "-" THEN Tail(text) ELSE text
  IN ds # <<>> /\ \A i \in 1..Len(ds) : IsDigit(ds[i])

IntegerOf(text) ==
  LET neg == text[1] = "-"
      ds == IF neg THEN Tail(text) ELSE text
      abs == DigitsToNat([i \in 1..Len(ds) |-> DigitOf(ds[i])])
  IN IF neg THEN 0 - abs ELSE abs

IntegerPrefixes(v) ==
  { k \in 1..Len(v.text) : v.given /\ IsIntegerText(SubSeq(v.text, 1, k)) }

\* The integer a parameter starts with: its longest integer-literal prefix.
LeadingInteger(v) ==
  IntegerOf(SubSeq(v.text, 1,
                   CHOOSE k \in IntegerPrefixes(v) : \A j \in IntegerPrefixes(v) : j <= k))

ClampedPage(q) ==
  IF IntegerPrefixes(q.page) # {} /\ LeadingInteger(q.page) >= 1
    THEN LeadingInteger(q.page) ELSE 1

ClampedSize(q) ==
  IF IntegerPrefixes(q.limit) # {} /\ LeadingInteger(q.limit) \in 1..100
    THEN LeadingInteger(q.limit) ELSE 10

Newer(M, id) == { m \in M : records[m].createdAt > records[id].createdAt }

NotOlder(M, id) == { m \in M : records[m].createdAt >= records[id].createdAt }

\* C16: a list request that is answered returns the matching records ranked
\* (page-1)*pageSize+1 through page*pageSize in descending createdAt order,
\* total the number of matching records, pages = ceil(total/pageSize) and
\* currentPage the clamped page.
C16_ListReturnsRankedPage ==
  (last.op = "list" /\ last.err = "none") =>
    LET q == last.query
        M == Matching(q)
        size == ClampedSize(q)
        skip == (ClampedPage(q) - 1) * size
        rest == IF Cardinality(M) > skip THEN Cardinality(M) - skip ELSE 0
        s == last.shares
    IN /\ last.total = Cardinality(M)
       /\ last.pages * size >= last.total
       /\ (last.pages - 1) * size < last.total
       /\ last.currentPage = ClampedPage(q)
       /\ Len(s) = IF rest < size THEN rest ELSE size
       /\ \A k \in 1..Len(s) :
            /\ s[k] \in M
            /\ \A j \in 1..Len(s) : j # k => s[j] # s[k]
            /\ \A j \in 1..Len(s) :
                 k < j => records[s[k]].createdAt >= records[s[j]].createdAt
            /\ Cardinality(Newer(M, s[k])) <= skip + k - 1
            /\ Cardinality(NotOlder(M, s[k])) >= skip + k

\* C16 witness: page 2 of size 2 over three matching records has been
\* answered with one record, total 3 and 2 pages.
C16_Witness ==
  /\ last.op = "list"
  /\ last.err = "none"
  /\ last.query.page = Raw(<<"2">>)
  /\ last.query.limit = Raw(<<"2">>)
  /\ last.total = 3
  /\ Len(last.shares) = 1
  /\ last.pages = 2

\* A price bound of the query is absent or an integer literal.
PriceKeyOk(v) == Truthy(v) => IsIntegerText(v.text)

\* The records a filter selects: exact match on every supplied governorate,
\* status and gender, and pricePerPerson within the supplied bounds.
Selected(q) ==
  { id \in DOMAIN records :
      /\ q.governorate # "" => records[id].governorate = q.governorate
      /\ q.status # "" => records[id].status = q.status
      /\ q.gender # "" => records[id].gender = q.gender
      /\ Truthy(q.minPrice) => IntegerOf(q.minPrice.text) <= records[id].pricePerPerson
      /\ Truthy(q.maxPrice) => records[id].pricePerPerson <= IntegerOf(q.maxPrice.text) }

C21_DeleteRecordFirst ==
  [][last'.op = "delete"
       => (/\ \A i \in 1..Len(last'.calls) :
                last'.calls[i] = "destroy"
                  => \E j \in 1..(i - 1) : last'.calls[j] = "deleteOne"
           /\ \A id \in DOMAIN records \cap DOMAIN records' :
                PhotoSet(records[id]) \cap objects \subseteq objects')]_vars

\* C22: a delete by the owner issues one destroy for every photo of the
\* listing, whichever of them reject, and removes every object whose own
\* destroy does not reject.
C22_ReleaseCoversEveryReference ==
  [][(last'.op = "delete" /\ ByOwner(last'))
       => LET photos == records[last'.id].photos
          IN /\ Count(last'.calls, "destroy") = Len(photos)
             /\ \A i \in 1..Len(photos) :
                  i \notin last'.fault.destroy => photos[i] \notin objects']_vars

\* Rejected by a validation rule, of the route or of the controller.
ValidationErrors == {"Validation error", "Invalid gender preference"}

\* The answer of the handler of the last request to the same request with its
\* preferences decoded.
DecodedAnswer(l) ==
  IF l.op = "create"
    THEN createHousingShare(l.caller, Decode(l.body), l.nfiles, l.fault)
    ELSE updateHousingShare(l.caller, l.id, Decode(l.body), l.nfiles, l.fault)

\* C23: a create, or an update by the owner, whose preferences is the JSON
\* text of a preferences record is judged on the decoded record: the
\* validation rules reject it exactly when they reject the same request with
\* the record itself, and when the decoded gender is male, female or any and
\* nothing else is wrong it is not rejected by validation.
C23_PreferencesDecodedFirst ==
  [][(/\ now' = now
      /\ last'.op \in {"create", "update"}
      /\ last'.op = "update" => ByOwner(last')
      /\ Has(last'.body, "preferences")
      /\ IsString(last'.body.preferences)
      /\ last'.body.preferences.wellFormed)
       => (/\ last'.err \in ValidationErrors
                <=> DecodedAnswer(last').err \in ValidationErrors
           /\ (/\ last'.body.preferences.encoded.gender \in GENDERS
               /\ "yearOfStudy" \notin DOMAIN last'.body.preferences.encoded)
                => last'.err \notin ValidationErrors)]_vars

\* C25: in a create whose other fields pass their rules and whose capacity
\* fields are integers in range (numbers or digit strings), the validator
\* rejects exactly when Number(totalCapacity) <= Number(currentOccupants).
C25_CapacityCheckIsNumeric ==
  (/\ last.op = "create"
   /\ last.body.governorate \in RouteGovernorates
   /\ isFloat(last.body.pricePerPerson, 0)
   /\ GenderField(last.body) \in GENDERS
   /\ isInt(last.body.currentOccupants, 1)
   /\ isInt(last.body.totalCapacity, 2))
    => (last.err = "Validation error"
          <=> ToNumber(last.body.totalCapacity)
                <= ToNumber(last.body.currentOccupants))

\* Every call in flight has answered.
AllDone == pending # <<>> /\ \A c \in DOMAIN pending : pending[c].pc = "done"

\* C24: once two concurrent calls of the owner on one listing, each an update
\* with files or a delete, have both answered, every live object is referenced
\* by the stored record, every reference of the stored record is live, and if
\* a delete answered with success the record is absent.
C24_ConcurrentCallsLeaveComplete ==
  AllDone =>
    (/\ objects \subseteq Referenced
     /\ \A id \in DOMAIN records : PhotoSet(records[id]) \subseteq objects
     /\ (\E c \in DOMAIN pending :
           pending[c].op = "delete" /\ pending[c].err = "none")
          => Listing \notin DOMAIN records)

====
